---- MODULE Spec2Model ----
(***************************************************************************)
(* Client-side session state machine of the FHE game client                *)
(* (src/bin/cli.rs) and the coordinator client it drives (src/client.rs).  *)
(*                                                                         *)
(* One command line is one step: run(state, line) is resolved completely,  *)
(* every coordinator request it issues included, before the next line is   *)
(* read (main's loop, cli.rs:137-155).  The coordinator and the            *)
(* cryptography engine are the environment: their answers are the inputs   *)
(* of each step.                                                           *)
(***************************************************************************)
EXTENDS Integers, Sequences, FiniteSets, TLC

(***************************************************************************)
(* Bounds of the model.                                                    *)
(***************************************************************************)
MaxUsers == 3       \* longest roster the coordinator reports
MaxOutputs == 3     \* largest output count n of a CircuitOutput

\* cli.rs:250  `let total_users = 4;`
TotalUsers == 4

(***************************************************************************)
(* Command lines.  A line is a sequence of one-character strings, so that  *)
(* split_whitespace and starts_with('#') are computed, not assumed.        *)
(***************************************************************************)
L_empty == << >>
L_blank == <<" ", " ">>
L_next == <<"n", "e", "x", "t">>
L_init == <<"i", "n", "i", "t">>
L_setup_game == <<"s", "e", "t", "u", "p", "_", "g", "a", "m", "e">>
L_move == <<"m", "o", "v", "e">>
L_move_up == <<"m", "o", "v", "e", " ", "u", "p">>
L_move_down == <<"m", "o", "v", "e", " ", "d", "o", "w", "n">>
L_move_left == <<"m", "o", "v", "e", " ", "l", "e", "f", "t">>
L_move_right == <<"m", "o", "v", "e", " ", "r", "i", "g", "h", "t">>
L_move_bad == <<"m", "o", "v", "e", " ", "u", "p", "p">>
L_lay == <<"l", "a", "y">>
L_pickup == <<"p", "i", "c", "k", "u", "p">>
L_done == <<"d", "o", "n", "e">>
L_status == <<"s", "t", "a", "t", "u", "s">>
L_comment == <<"#", " ", "n", "e", "x", "t">>
L_comment_glued == <<"#", "n", "e", "x", "t">>
L_conclude == <<"c", "o", "n", "c", "l", "u", "d", "e">>
L_unknown == <<"n", "e", "x", "t", "!">>

Lines ==
    { L_empty, L_blank, L_next, L_init, L_setup_game, L_move,
      L_move_up, L_move_down, L_move_left, L_move_right, L_move_bad, L_lay,
      L_pickup, L_done, L_status, L_comment, L_comment_glued, L_conclude,
      L_unknown }

\* str::split_whitespace: maximal runs of non-whitespace characters.
RECURSIVE SplitFrom(_, _, _, _)
SplitFrom(line, i, cur, acc) ==
    IF i > Len(line)
    THEN IF cur = << >> THEN acc ELSE Append(acc, cur)
    ELSE IF line[i] = " "
         THEN SplitFrom(line, i + 1, << >>,
                        IF cur = << >> THEN acc ELSE Append(acc, cur))
         ELSE SplitFrom(line, i + 1, Append(cur, line[i]), acc)

split_whitespace(line) == SplitFrom(line, 1, << >>, << >>)

\* As starts_with_hash, for the token "#" alone.
starts_with_hash_alone(tok) == tok = <<"#">>

\* str::starts_with('#')
starts_with_hash(tok) == Len(tok) > 0 /\ tok[1] = "#"

(***************************************************************************)
(* Results and coordinator responses.                                      *)
(***************************************************************************)
NoVal == << >>
NoErr == << >>

\* What one cmd_* function hands back: Ok(val) or Err(err), together with
\* the coordinator requests it issued (reqs) and the cryptography-engine
\* calls it made (eng), in order.
Done(ok, val, err, reqs, eng) ==
    [ok |-> ok, val |-> val, err |-> err, reqs |-> reqs, eng |-> eng]

\* Response texts, one character per element, so that formatting is computed.
T_duplicate ==
    <<"d","u","p","l","i","c","a","t","e"," ",
      "r","e","g","i","s","t","r","a","t","i","o","n">>
T_quoted == <<"n","o"," ","\"","b","o","b","\"">>
ErrTexts == {T_duplicate, T_quoted}

\* Where, in a list of requests, the successful ones for operation op are;
\* where, in a list of engine calls, the calls of fn are.
OkOf(reqs, op) == {i \in DOMAIN reqs : reqs[i].op = op /\ reqs[i].ok}
CallsOf(eng, fn) == {i \in DOMAIN eng : eng[i].fn = fn}

\* A response is a 200 with a decodable body ("ok"), a 200 whose body does
\* not decode ("garbled"), a non-200 with a text body ("status"), a non-200
\* whose body cannot be read ("mute"), or no response at all, send() having
\* failed ("fault").
OkResp(b) == [kind |-> "ok", body |-> b, text |-> << >>]
FailResponses(dflt) ==
    {[kind |-> "status", body |-> dflt, text |-> t] : t \in ErrTexts}
        \cup {[kind |-> k, body |-> dflt, text |-> << >>] : k \in {"garbled", "mute"}}
        \cup {[kind |-> "fault", body |-> dflt, text |-> <<"connection refused">>]}
Responses(bodies) ==
    {OkResp(b) : b \in bodies} \cup FailResponses(CHOOSE b \in bodies : TRUE)

\* <str as Debug>::fmt, behind {:?}: the text between double quotes, with
\* the double quote, the backslash and the line feed escaped.
RECURSIVE EscapeFrom(_, _)
EscapeFrom(text, i) ==
    IF i > Len(text) THEN << >>
    ELSE (IF text[i] = "\"" THEN <<"\\", "\"">>
          ELSE IF text[i] = "\\" THEN <<"\\", "\\">>
          ELSE IF text[i] = "\n" THEN <<"\\", "n">>
          ELSE <<text[i]>>) \o EscapeFrom(text, i + 1)

DebugFmt(text) == <<"\"">> \o EscapeFrom(text, 1) \o <<"\"">>

\* As ServerRespondedError, with {} in place of {:?}.
ServerRespondedError_display(text) == <<"Server responded error: ">> \o text

\* bail!("Server responded error: {:?}", err)
ServerRespondedError(text) == <<"Server responded error: ">> \o DebugFmt(text)

\* The result of one request; it keeps the response it was made from.
Failed(err, resp) == [ok |-> FALSE, val |-> NoVal, err |-> err, resp |-> resp]

\* handle_response_prod: 200 => Ok(json), `?` passing reqwest's error on; any
\* other status => the text wrapped by bail!, `?` passing reqwest's error on
\* when the body cannot be read.
handle_response_prod(resp) ==
    IF resp.kind = "ok"
    THEN [ok |-> TRUE, val |-> resp.body, err |-> NoErr, resp |-> resp]
    ELSE IF resp.kind = "garbled"
    THEN Failed(<<"error decoding response body">>, resp)
    ELSE IF resp.kind = "mute"
    THEN Failed(<<"error decoding response body">>, resp)
    ELSE Failed(ServerRespondedError(resp.text), resp)

\* handle_response_test: the same two arms over a rocket LocalResponse, with
\* ok_or(anyhow!("Can't parse response output")) where the body gives None.
handle_response_test(resp) ==
    IF resp.kind = "ok"
    THEN [ok |-> TRUE, val |-> resp.body, err |-> NoErr, resp |-> resp]
    ELSE IF resp.kind = "garbled"
    THEN Failed(<<"Can't parse response output">>, resp)
    ELSE IF resp.kind = "mute"
    THEN Failed(<<"Can't parse response output">>, resp)
    ELSE Failed(ServerRespondedError(resp.text), resp)

\* WebClient::get / post / post_nobody / post_msgpack: Prod sends the request
\* (`send().await?` fails when there is no response) and hands the response
\* to handle_response_prod; Test dispatches locally, which always yields a
\* response, and hands it to handle_response_test.
Transport(self, resp) ==
    IF self.backend = "Prod"
    THEN IF resp.kind = "fault"
         THEN Failed(resp.text, resp)
         ELSE handle_response_prod(resp)
    ELSE handle_response_test(resp)

\* The responses a backend can see: a local dispatch never lacks a response.
Dispatch(self, all) ==
    IF self.backend = "Prod" THEN all ELSE {r \in all : r.kind # "fault"}

\* One request of the coordinator client: the operation, its arguments,
\* whether it succeeded, and the response it got.
Req(op, arg, r) == [op |-> op, arg |-> arg, ok |-> r.ok, resp |-> r.resp]

(***************************************************************************)
(* Cryptography engine (external crates): opaque terms of their arguments. *)
(***************************************************************************)
\* Client keys gen_client_key may produce: opaque, two of them.
Keys == {"ck_a", "ck_b"}

\* phantom_zone::gen_server_key_share(user_id, total_users, ck)
gen_server_key_share(user_id, total_users, ck) ==
    [user_id |-> user_id, total_users |-> total_users, ck |-> ck]

\* CircuitOutput::n
co_n(co) == co.n

\* CircuitOutput::gen_decryption_shares(ck): one annotated share
\* (output index, share) per output index of the circuit output.
gen_decryption_shares(co, ck) ==
    [i \in 1..co_n(co) |-> <<i - 1, [by |-> "local", ck |-> ck, out |-> i - 1]>>]

\* CircuitOutput::decrypt(ck, dss): one plaintext vector per output index.
decrypt(co, ck, dss) ==
    [i \in 1..Len(dss) |-> [plain_of |-> i - 1, ck |-> ck, from |-> dss[i]]]

\* The share the coordinator serves for (output_id, user_id).
CoordinatorShare(output_id, user_id) ==
    [by |-> "coordinator", user |-> user_id, out |-> output_id]

(***************************************************************************)
(* WebClient (client.rs).  Every method is one request whose response the  *)
(* environment supplies; the result is handle_response's.                  *)
(***************************************************************************)
WebClient_new(url) == [backend |-> "Prod", url |-> url]

\* WebClient::Test(client): the local backend, which has no url.
WebClient_Test == [backend |-> "Test", url |-> ""]

get_seed(self, resp) == Transport(self, resp)
register(self, name, resp) == Transport(self, resp)
get_dashboard(self, resp) == Transport(self, resp)
submit_sks(self, user_id, sks, resp) == Transport(self, resp)
request_action(self, user_id, action, resp) == Transport(self, resp)
trigger_fhe_run(self, resp) == Transport(self, resp)
get_fhe_output(self, resp) == Transport(self, resp)
submit_decryption_shares(self, user_id, shares, resp) == Transport(self, resp)
get_decryption_share(self, output_id, user_id, resp) == Transport(self, resp)

(***************************************************************************)
(* cmd_* functions of cli.rs.                                              *)
(***************************************************************************)
\* As cmd_setup, with a failed registration passed over.
cmd_setup_forgiving(name, client, seedResp, ck, regResp) ==
    LET seed == get_seed(client, seedResp)
        q1 == <<Req("get_seed", << >>, seed)>>
    IN  IF ~seed.ok THEN Done(FALSE, NoVal, seed.err, q1, << >>)
        ELSE LET e1 == <<[fn |-> "setup", arg |-> seed.val],
                         [fn |-> "gen_client_key", arg |-> ck]>>
                 user == register(client, name, regResp)
                 q2 == Append(q1, Req("register", <<name>>, user))
             IN  IF ~user.ok THEN Done(TRUE, <<ck, 0>>, NoErr, q2, e1)
                 ELSE Done(TRUE, <<ck, user.val.id>>, NoErr, q2, e1)

\* cmd_setup: fetch the seed, set up the CRS, generate the client key,
\* register.  `?` returns at the first failing request.
cmd_setup(name, client, seedResp, ck, regResp) ==
    LET seed == get_seed(client, seedResp)
        q1 == <<Req("get_seed", << >>, seed)>>
    IN  IF ~seed.ok THEN Done(FALSE, NoVal, seed.err, q1, << >>)
        ELSE LET e1 == <<[fn |-> "setup", arg |-> seed.val],
                         [fn |-> "gen_client_key", arg |-> ck]>>
                 user == register(client, name, regResp)
                 q2 == Append(q1, Req("register", <<name>>, user))
             IN  IF ~user.ok THEN Done(FALSE, NoVal, user.err, q2, e1)
                 ELSE Done(TRUE, <<ck, user.val.id>>, NoErr, q2, e1)

\* cmd_get_names
cmd_get_names(client, dashResp) ==
    LET d == get_dashboard(client, dashResp)
        q == <<Req("get_dashboard", << >>, d)>>
    IN  IF ~d.ok THEN Done(FALSE, NoVal, d.err, q, << >>)
        ELSE Done(TRUE, <<d.val.concluded, d.val.names>>, NoErr, q, << >>)

\* The game commands: each is one request_action.
GameAction(act, client, user_id, resp) ==
    LET r == request_action(client, user_id, act, resp)
        q == <<Req("request_action", <<user_id, act>>, r)>>
    IN  IF ~r.ok THEN Done(FALSE, NoVal, r.err, q, << >>)
        ELSE Done(TRUE, NoVal, NoErr, q, << >>)

cmd_init(client, ck, user_id, resp) == GameAction("InitGame", client, user_id, resp)

cmd_setup_game(client, ck, user_id, resp) ==
    GameAction("SetStartingCoords", client, user_id, resp)

U_up == <<"u", "p">>
U_down == <<"d", "o", "w", "n">>
U_left == <<"l", "e", "f", "t">>
U_right == <<"r", "i", "g", "h", "t">>

\* As cmd_move, with the direction parsed after the request is sent.
cmd_move_late(args, client, ck, user_id, resp) ==
    LET sent == GameAction("MovePlayer", client, user_id, resp)
    IN  IF Len(args) = 0
        THEN Done(FALSE, NoVal, <<"please add direction to move">>, sent.reqs,
                  << >>)
        ELSE IF args[1] \notin {U_up, U_down, U_left, U_right}
             THEN Done(FALSE, NoVal, <<"invalid commmit">>, sent.reqs, << >>)
             ELSE sent

\* cmd_move: the direction is parsed before anything is sent.
cmd_move(args, client, ck, user_id, resp) ==
    IF Len(args) = 0
    THEN Done(FALSE, NoVal, <<"please add direction to move">>, << >>, << >>)
    ELSE IF args[1] \notin {U_up, U_down, U_left, U_right}
         THEN Done(FALSE, NoVal, <<"invalid commmit">>, << >>, << >>)
         ELSE GameAction("MovePlayer", client, user_id, resp)

cmd_lay(client, user_id, resp) == GameAction("LayEgg", client, user_id, resp)

cmd_pickup(client, user_id, resp) == GameAction("PickupEgg", client, user_id, resp)

cmd_done(client, user_id, resp) == GameAction("Done", client, user_id, resp)

\* cmd_submit_sks: `names` is a parameter, the count passed to the engine
\* is the literal total_users.
cmd_submit_sks(args, client, user_id, names, ck, resp) ==
    LET total_users == TotalUsers
        sks == gen_server_key_share(user_id, total_users, ck)
        e == <<[fn |-> "gen_server_key_share", arg |-> sks]>>
        r == submit_sks(client, user_id, sks, resp)
        q == <<Req("submit_sks", <<user_id, sks>>, r)>>
    IN  IF ~r.ok THEN Done(FALSE, NoVal, r.err, q, e)
        ELSE Done(TRUE, NoVal, NoErr, q, e)

\* cmd_run: any successful response counts, whatever run state it reports.
cmd_run(client, resp) ==
    LET r == trigger_fhe_run(client, resp)
        q == <<Req("trigger_fhe_run", << >>, r)>>
    IN  IF ~r.ok THEN Done(FALSE, NoVal, r.err, q, << >>)
        ELSE Done(TRUE, NoVal, NoErr, q, << >>)

\* HashMap::insert: the new value replaces one already stored under the key.
Insert(map, key, val) ==
    (key :> val) @@ map

EmptyMap == [k \in {} |-> 0]

\* cli.rs:281-283: seed the map with the participant's own shares.
RECURSIVE SeedShares(_, _, _, _)
SeedShares(mine, i, user_id, shares) ==
    IF i > Len(mine) THEN shares
    ELSE SeedShares(mine, i + 1, user_id,
                    Insert(shares, <<mine[i][1], user_id>>, mine[i][2]))

\* As cmd_download_output, with the output fetched before the run status
\* is tested.
cmd_download_output_eager(client, user_id, ck, runResp, outResp, subResp) ==
    LET resp == trigger_fhe_run(client, runResp)
        q1 == <<Req("trigger_fhe_run", << >>, resp)>>
    IN  IF ~resp.ok THEN Done(FALSE, NoVal, resp.err, q1, << >>)
        ELSE
          LET fhe_out == get_fhe_output(client, outResp)
              q2 == Append(q1, Req("get_fhe_output", << >>, fhe_out))
          IN  IF resp.val # "CompletedFhe"
              THEN Done(FALSE, NoVal, <<"FHE is still running">>, q2, << >>)
              ELSE IF ~fhe_out.ok THEN Done(FALSE, NoVal, fhe_out.err, q2, << >>)
              ELSE
                LET mine == gen_decryption_shares(fhe_out.val, ck)
                    e == <<[fn |-> "gen_decryption_shares", arg |-> ck]>>
                    shares == SeedShares(mine, 1, user_id, EmptyMap)
                    s == submit_decryption_shares(client, user_id, mine, subResp)
                    q3 == Append(q2, Req("submit_decryption_shares",
                                         <<user_id, mine>>, s))
                IN  IF ~s.ok THEN Done(FALSE, NoVal, s.err, q3, e)
                    ELSE Done(TRUE, <<fhe_out.val, shares>>, NoErr, q3, e)

\* As cmd_download_output, with the result of the submission dropped.
cmd_download_output_unsubmitted(client, user_id, ck, runResp, outResp, subResp) ==
    LET resp == trigger_fhe_run(client, runResp)
        q1 == <<Req("trigger_fhe_run", << >>, resp)>>
    IN  IF ~resp.ok THEN Done(FALSE, NoVal, resp.err, q1, << >>)
        ELSE IF resp.val # "CompletedFhe"
        THEN Done(FALSE, NoVal, <<"FHE is still running">>, q1, << >>)
        ELSE
          LET fhe_out == get_fhe_output(client, outResp)
              q2 == Append(q1, Req("get_fhe_output", << >>, fhe_out))
          IN  IF ~fhe_out.ok THEN Done(FALSE, NoVal, fhe_out.err, q2, << >>)
              ELSE
                LET mine == gen_decryption_shares(fhe_out.val, ck)
                    e == <<[fn |-> "gen_decryption_shares", arg |-> ck]>>
                    shares == SeedShares(mine, 1, user_id, EmptyMap)
                    s == submit_decryption_shares(client, user_id, mine, subResp)
                    q3 == Append(q2, Req("submit_decryption_shares",
                                         <<user_id, mine>>, s))
                IN  Done(TRUE, <<fhe_out.val, shares>>, NoErr, q3, e)

\* cmd_download_output
cmd_download_output(client, user_id, ck, runResp, outResp, subResp) ==
    LET resp == trigger_fhe_run(client, runResp)
        q1 == <<Req("trigger_fhe_run", << >>, resp)>>
    IN  IF ~resp.ok THEN Done(FALSE, NoVal, resp.err, q1, << >>)
        ELSE IF resp.val # "CompletedFhe"
        THEN Done(FALSE, NoVal, <<"FHE is still running">>, q1, << >>)
        ELSE
          LET fhe_out == get_fhe_output(client, outResp)
              q2 == Append(q1, Req("get_fhe_output", << >>, fhe_out))
          IN  IF ~fhe_out.ok THEN Done(FALSE, NoVal, fhe_out.err, q2, << >>)
              ELSE
                LET mine == gen_decryption_shares(fhe_out.val, ck)
                    e == <<[fn |-> "gen_decryption_shares", arg |-> ck]>>
                    shares == SeedShares(mine, 1, user_id, EmptyMap)
                    s == submit_decryption_shares(client, user_id, mine, subResp)
                    q3 == Append(q2, Req("submit_decryption_shares",
                                         <<user_id, mine>>, s))
                IN  IF ~s.ok THEN Done(FALSE, NoVal, s.err, q3, e)
                    ELSE Done(TRUE, <<fhe_out.val, shares>>, NoErr, q3, e)

\* As cartesian_product, with the participant id outermost.
cartesian_product_swapped(n, m) ==
    [k \in 1..(n * m) |-> <<(k - 1) % n, (k - 1) \div n>>]

\* itertools cartesian_product(0..n, 0..m): output index outermost.
cartesian_product(n, m) ==
    [k \in 1..(n * m) |-> <<(k - 1) \div m, (k - 1) % m>>]

\* F applied to the value of x: the value is computed once, before F.
With(x, F(_)) == CHOOSE y \in {F(v) : v \in {x}} : TRUE

\* As FetchLoop, without the `is_none` test: every pair is fetched.
RECURSIVE FetchLoop_refetch(_, _, _, _, _, _, _)
FetchLoop_refetch(client, pairs, i, shares, reqs, failAt, failResp) ==
    IF i > Len(pairs)
    THEN [ok |-> TRUE, err |-> NoErr, shares |-> shares, reqs |-> reqs]
    ELSE LET output_id == pairs[i][1]
             user_id == pairs[i][2]
             resp == IF Len(reqs) + 1 = failAt THEN failResp
                     ELSE OkResp(<<output_id, CoordinatorShare(output_id, user_id)>>)
             r == get_decryption_share(client, output_id, user_id, resp)
             q == Append(reqs, Req("get_decryption_share",
                                   <<output_id, user_id>>, r))
         IN  IF ~r.ok
             THEN [ok |-> FALSE, err |-> r.err, shares |-> shares, reqs |-> q]
             ELSE FetchLoop_refetch(client, pairs, i + 1,
                                    (<<output_id, user_id>> :> r.val[2]) @@ shares,
                                    q, failAt, failResp)

\* As FetchLoop, with a failed fetch skipped instead of returned.
RECURSIVE FetchLoop_continues(_, _, _, _, _, _, _)
FetchLoop_continues(client, pairs, i, shares, reqs, failAt, failResp) ==
    IF i > Len(pairs)
    THEN [ok |-> TRUE, err |-> NoErr, shares |-> shares, reqs |-> reqs]
    ELSE LET output_id == pairs[i][1]
             user_id == pairs[i][2]
         IN  IF <<output_id, user_id>> \notin DOMAIN shares
             THEN LET resp == IF Len(reqs) + 1 = failAt THEN failResp
                              ELSE OkResp(<<output_id,
                                            CoordinatorShare(output_id, user_id)>>)
                      r == get_decryption_share(client, output_id, user_id, resp)
                      q == Append(reqs, Req("get_decryption_share",
                                            <<output_id, user_id>>, r))
                  IN  FetchLoop_continues(client, pairs, i + 1,
                          IF r.ok
                          THEN (<<output_id, user_id>> :> r.val[2]) @@ shares
                          ELSE shares,
                          q, failAt, failResp)
             ELSE FetchLoop_continues(client, pairs, i + 1, shares, reqs, failAt, failResp)

\* cli.rs:300-305, the fetch loop.  failAt numbers the fetch of this pass
\* the coordinator fails (0: none); `?` leaves the loop there, with the
\* entries inserted so far still in the map behind `&mut shares`.
RECURSIVE FetchLoop(_, _, _, _, _, _, _)
FetchLoop(client, pairs, i, shares, reqs, failAt, failResp) ==
    IF i > Len(pairs)
    THEN [ok |-> TRUE, err |-> NoErr, shares |-> shares, reqs |-> reqs]
    ELSE LET output_id == pairs[i][1]
             user_id == pairs[i][2]
         IN  IF <<output_id, user_id>> \notin DOMAIN shares
             THEN LET resp == IF Len(reqs) + 1 = failAt THEN failResp
                              ELSE OkResp(<<output_id,
                                            CoordinatorShare(output_id, user_id)>>)
                      r == get_decryption_share(client, output_id, user_id, resp)
                      q == Append(reqs, Req("get_decryption_share",
                                            <<output_id, user_id>>, r))
                  IN  IF ~r.ok
                      THEN [ok |-> FALSE, err |-> r.err, shares |-> shares,
                            reqs |-> q]
                      ELSE With(<<Insert(shares, <<output_id, user_id>>,
                                         r.val[2]), q>>,
                                LAMBDA x : FetchLoop(client, pairs, i + 1, x[1],
                                                     x[2], failAt, failResp))
             ELSE FetchLoop(client, pairs, i + 1, shares, reqs, failAt, failResp)

\* As cmd_download_shares, with the map emptied when a fetch fails.
cmd_download_shares_clears(client, names, ck, shares, co, failAt, failResp) ==
    LET total_users == Len(names)
        loop == FetchLoop(client, cartesian_product(co_n(co), total_users), 1,
                          shares,
                          << >>, failAt, failResp)
    IN  IF ~loop.ok
        THEN Done(FALSE, NoVal, loop.err, loop.reqs, << >>)
                 @@ [shares |-> EmptyMap, panic |-> FALSE]
        ELSE LET dss == [o \in 1..co_n(co) |->
                            [u \in 1..total_users |-> loop.shares[<<o - 1, u - 1>>]]]
             IN  Done(TRUE, decrypt(co, ck, dss), NoErr, loop.reqs,
                      <<[fn |-> "decrypt", arg |-> <<ck, dss>>]>>)
                     @@ [shares |-> loop.shares, panic |-> FALSE]

\* cmd_download_shares.  Besides its Result it yields the map it was lent
\* (shares) and whether `expect("exists")` panicked.
cmd_download_shares(client, names, ck, shares, co, failAt, failResp) ==
    LET total_users == Len(names)
    IN  With(FetchLoop(client, cartesian_product(co_n(co), total_users), 1,
                       shares, << >>, failAt, failResp),
             LAMBDA loop :
        IF ~loop.ok
        THEN Done(FALSE, NoVal, loop.err, loop.reqs, << >>)
                 @@ [shares |-> loop.shares, panic |-> FALSE]
        ELSE IF \E o \in 0..(co_n(co) - 1), u \in 0..(total_users - 1) :
                    <<o, u>> \notin DOMAIN loop.shares
        THEN Done(FALSE, NoVal, <<"exists">>, loop.reqs, << >>)
                 @@ [shares |-> loop.shares, panic |-> TRUE]
        ELSE LET dss == [o \in 1..co_n(co) |->
                            [u \in 1..total_users |-> loop.shares[<<o - 1, u - 1>>]]]
                 decrypted_output == decrypt(co, ck, dss)
             IN  Done(TRUE, decrypted_output, NoErr, loop.reqs,
                      <<[fn |-> "decrypt", arg |-> <<ck, dss>>]>>)
                     @@ [shares |-> loop.shares, panic |-> FALSE])

(***************************************************************************)
(* The phases (enum State) and run().                                      *)
(***************************************************************************)
StateInit(name, client) == [tag |-> "Init", name |-> name, client |-> client]

StateSetup(name, client, ck, user_id) ==
    [tag |-> "Setup", name |-> name, client |-> client, ck |-> ck,
     user_id |-> user_id]

Registration(name, client, ck, user_id, names) ==
    [tag |-> "ConcludedRegistration", name |-> name, client |-> client,
     ck |-> ck, user_id |-> user_id, names |-> names]

SubmittedSks(name, client, ck, user_id, names) ==
    [tag |-> "SubmittedSks", name |-> name, client |-> client, ck |-> ck,
     user_id |-> user_id, names |-> names]

StateTriggeredRun(name, client, ck, user_id, names) ==
    [tag |-> "TriggeredRun", name |-> name, client |-> client, ck |-> ck,
     user_id |-> user_id, names |-> names]

StateDownloadedOuput(name, client, ck, names, fhe_out, shares) ==
    [tag |-> "DownloadedOutput", name |-> name, client |-> client, ck |-> ck,
     names |-> names, fhe_out |-> fhe_out, shares |-> shares]

StateDecrypted(names, client, decrypted_output) ==
    [tag |-> "Decrypted", names |-> names, client |-> client,
     decrypted_output |-> decrypted_output]

\* A prompt is a sequence of pieces: plain text, or a word between
\* backquotes.
Plain(t) == [quoted |-> FALSE, text |-> t]
Quoted(w) == [quoted |-> TRUE, text |-> w]

L_ctrl_d == <<"C", "T", "R", "L", "-", "D">>

\* "Enter `conclude` to end registration or `next` to proceed"
M_setup ==
    <<Plain("Enter "), Quoted(L_conclude), Plain(" to end registration or "),
      Quoted(L_next), Plain(" to proceed")>>

\* "Exit with `CTRL-D`"
M_decrypted == <<Plain("Exit with "), Quoted(L_ctrl_d)>>

\* "Enter `next` to continue"
M_other == <<Plain("Enter "), Quoted(L_next), Plain(" to continue")>>

\* State::print_instruction (cli.rs:63-70): the message printed after the
\* pointing hand.
print_instruction(self) ==
    IF self.tag = "Setup" THEN M_setup
    ELSE IF self.tag = "Decrypted" THEN M_decrypted
    ELSE M_other

\* Result<State, (Error, State)> of run, with what the command did.
Ran(ok, state, err, reqs, eng) ==
    [ok |-> ok, state |-> state, err |-> err, reqs |-> reqs, eng |-> eng,
     panic |-> FALSE]

\* As run_next_Init, with the id of the first participant stored.
run_next_Init_first(s, seedResp, ck, regResp) ==
    LET c == cmd_setup(s.name, s.client, seedResp, ck, regResp)
    IN  IF c.ok
        THEN Ran(TRUE, StateSetup(s.name, s.client, c.val[1], 0), NoErr,
                 c.reqs, c.eng)
        ELSE Ran(FALSE, s, c.err, c.reqs, c.eng)

\* cli.rs:333-341
run_next_Init(s, seedResp, ck, regResp) ==
    LET c == cmd_setup(s.name, s.client, seedResp, ck, regResp)
    IN  IF c.ok
        THEN Ran(TRUE, StateSetup(s.name, s.client, c.val[1], c.val[2]), NoErr,
                 c.reqs, c.eng)
        ELSE Ran(FALSE, s, c.err, c.reqs, c.eng)

\* As run_next_Setup, with the wrong variant built on conclusion.
run_next_Setup_skips(s, dashResp) ==
    LET c == cmd_get_names(s.client, dashResp)
    IN  IF c.ok
        THEN IF c.val[1]
             THEN Ran(TRUE, SubmittedSks(s.name, s.client, s.ck, s.user_id,
                                         c.val[2]), NoErr, c.reqs, c.eng)
             ELSE Ran(TRUE, s, NoErr, c.reqs, c.eng)
        ELSE Ran(FALSE, s, c.err, c.reqs, c.eng)

\* As run_next_Setup, advancing whatever the dashboard says.
run_next_Setup_hasty(s, dashResp) ==
    LET c == cmd_get_names(s.client, dashResp)
    IN  IF c.ok
        THEN Ran(TRUE, Registration(s.name, s.client, s.ck, s.user_id,
                                    c.val[2]), NoErr, c.reqs, c.eng)
        ELSE Ran(FALSE, s, c.err, c.reqs, c.eng)

\* As run_next_Setup, starting over while registration is open.
run_next_Setup_restarts(s, dashResp) ==
    LET c == cmd_get_names(s.client, dashResp)
    IN  IF c.ok
        THEN IF c.val[1]
             THEN Ran(TRUE, Registration(s.name, s.client, s.ck, s.user_id,
                                         c.val[2]), NoErr, c.reqs, c.eng)
             ELSE Ran(TRUE, StateInit(s.name, s.client), NoErr, c.reqs, c.eng)
        ELSE Ran(FALSE, s, c.err, c.reqs, c.eng)

\* cli.rs:342-357
run_next_Setup(s, dashResp) ==
    LET c == cmd_get_names(s.client, dashResp)
    IN  IF c.ok
        THEN IF c.val[1]
             THEN Ran(TRUE, Registration(s.name, s.client, s.ck, s.user_id,
                                         c.val[2]), NoErr, c.reqs, c.eng)
             ELSE Ran(TRUE, s, NoErr, c.reqs, c.eng)
        ELSE Ran(FALSE, s, c.err, c.reqs, c.eng)

\* As run_next_ConcludedRegistration, with the next phase paired with Err.
run_next_ConcludedRegistration_err_advances(s, args, resp) ==
    LET c == cmd_submit_sks(args, s.client, s.user_id, s.names, s.ck, resp)
    IN  Ran(c.ok, SubmittedSks(s.name, s.client, s.ck, s.user_id, s.names),
            c.err, c.reqs, c.eng)

\* cli.rs:358-369
run_next_ConcludedRegistration(s, args, resp) ==
    LET c == cmd_submit_sks(args, s.client, s.user_id, s.names, s.ck, resp)
    IN  IF c.ok
        THEN Ran(TRUE, SubmittedSks(s.name, s.client, s.ck, s.user_id, s.names),
                 NoErr, c.reqs, c.eng)
        ELSE Ran(FALSE, s, c.err, c.reqs, c.eng)

\* As run_next_SubmittedSks, staying where it is once the run is triggered.
run_next_SubmittedSks_stalls(s, resp) ==
    LET c == cmd_run(s.client, resp)
    IN  Ran(c.ok, s, c.err, c.reqs, c.eng)

\* cli.rs:370-379
run_next_SubmittedSks(s, resp) ==
    LET c == cmd_run(s.client, resp)
    IN  IF c.ok
        THEN Ran(TRUE, StateTriggeredRun(s.name, s.client, s.ck, s.user_id,
                                         s.names), NoErr, c.reqs, c.eng)
        ELSE Ran(FALSE, s, c.err, c.reqs, c.eng)

\* cli.rs:380-391
run_next_TriggeredRun(s, runResp, outResp, subResp) ==
    LET c == cmd_download_output(s.client, s.user_id, s.ck, runResp, outResp,
                                 subResp)
    IN  IF c.ok
        THEN Ran(TRUE, StateDownloadedOuput(s.name, s.client, s.ck, s.names,
                                            c.val[1], c.val[2]),
                 NoErr, c.reqs, c.eng)
        ELSE Ran(FALSE, s, c.err, c.reqs, c.eng)

\* As run_next_DownloadedOutput, with Err carrying the map as it was before
\* the pass.
run_next_DownloadedOutput_restores(s, failAt, failResp) ==
    LET c == cmd_download_shares(s.client, s.names, s.ck, s.shares, s.fhe_out,
                                 failAt, failResp)
    IN  IF c.panic
        THEN [Ran(FALSE, s, c.err, c.reqs, c.eng) EXCEPT !.panic = TRUE]
        ELSE IF c.ok
        THEN Ran(TRUE, StateDecrypted(s.names, s.client, c.val), NoErr,
                 c.reqs, c.eng)
        ELSE Ran(FALSE, s, c.err, c.reqs, c.eng)

\* cli.rs:392-403.  `mut s`: the map inside s is the one the aggregation
\* wrote to, so the state handed back on Err carries it.
run_next_DownloadedOutput(s, failAt, failResp) ==
    With(cmd_download_shares(s.client, s.names, s.ck, s.shares, s.fhe_out,
                             failAt, failResp),
         LAMBDA c :
    LET s2 == [s EXCEPT !.shares = c.shares]
    IN  IF c.panic
        THEN [Ran(FALSE, s2, c.err, c.reqs, c.eng) EXCEPT !.panic = TRUE]
        ELSE IF c.ok
        THEN Ran(TRUE, StateDecrypted(s2.names, s2.client, c.val), NoErr,
                 c.reqs, c.eng)
        ELSE Ran(FALSE, s2, c.err, c.reqs, c.eng))

\* As run_next_Decrypted, with the output dropped.
run_next_Decrypted_drops(s) ==
    Ran(TRUE, StateDecrypted(s.names, s.client, << >>), NoErr, << >>, << >>)

\* cli.rs:404-412
run_next_Decrypted(s) ==
    Ran(TRUE, StateDecrypted(s.names, s.client, s.decrypted_output), NoErr,
        << >>, << >>)

\* `_ => Err((anyhow!("Invalid state for command {}", cmd), state))`
InvalidState(state, cmd) ==
    Ran(FALSE, state, <<"Invalid state for command ", cmd>>, << >>, << >>)

\* As AfterGameCmd, with the roster not carried over.
AfterGameCmd_resets(s, c) ==
    IF c.ok
    THEN Ran(TRUE, SubmittedSks(s.name, s.client, s.ck, s.user_id, << >>),
             NoErr, c.reqs, c.eng)
    ELSE Ran(FALSE, s, c.err, c.reqs, c.eng)

\* A game command inside SubmittedSks: Ok rebuilds SubmittedSks from the
\* fields of s, Err hands s back.
AfterGameCmd(s, c) ==
    IF c.ok
    THEN Ran(TRUE, SubmittedSks(s.name, s.client, s.ck, s.user_id, s.names),
             NoErr, c.reqs, c.eng)
    ELSE Ran(FALSE, s, c.err, c.reqs, c.eng)

\* cli.rs:414-427
run_init(state, cmd, resp) ==
    IF state.tag = "SubmittedSks"
    THEN AfterGameCmd(state, cmd_init(state.client, state.ck, state.user_id, resp))
    ELSE InvalidState(state, cmd)

\* cli.rs:428-441
run_setup_game(state, cmd, resp) ==
    IF state.tag = "SubmittedSks"
    THEN AfterGameCmd(state, cmd_setup_game(state.client, state.ck,
                                            state.user_id, resp))
    ELSE InvalidState(state, cmd)

\* cli.rs:442-455
run_move(state, cmd, args, resp) ==
    IF state.tag = "SubmittedSks"
    THEN AfterGameCmd(state, cmd_move(args, state.client, state.ck,
                                      state.user_id, resp))
    ELSE InvalidState(state, cmd)

\* cli.rs:456-469
run_lay(state, cmd, resp) ==
    IF state.tag = "SubmittedSks"
    THEN AfterGameCmd(state, cmd_lay(state.client, state.user_id, resp))
    ELSE InvalidState(state, cmd)

\* cli.rs:470-483
run_pickup(state, cmd, resp) ==
    IF state.tag = "SubmittedSks"
    THEN AfterGameCmd(state, cmd_pickup(state.client, state.user_id, resp))
    ELSE InvalidState(state, cmd)

\* As run_done, accepted in TriggeredRun as well.
run_done_any(state, cmd, resp) ==
    IF state.tag \in {"SubmittedSks", "TriggeredRun"}
    THEN AfterGameCmd(state, cmd_done(state.client, state.user_id, resp))
    ELSE InvalidState(state, cmd)

\* cli.rs:484-497
run_done(state, cmd, resp) ==
    IF state.tag = "SubmittedSks"
    THEN AfterGameCmd(state, cmd_done(state.client, state.user_id, resp))
    ELSE InvalidState(state, cmd)

\* As run_status, answered from the phase once it holds a roster.
run_status_local(state, resp) ==
    LET d == get_dashboard(state.client, resp)
        q == <<Req("get_dashboard", << >>, d)>>
    IN  IF "names" \in DOMAIN state THEN Ran(TRUE, state, NoErr, << >>, << >>)
        ELSE IF d.ok THEN Ran(TRUE, state, NoErr, q, << >>)
        ELSE Ran(FALSE, state, d.err, q, << >>)

\* As run_status, with the roster of the dashboard taken over.
run_status_refreshes(state, resp) ==
    LET d == get_dashboard(state.client, resp)
        q == <<Req("get_dashboard", << >>, d)>>
    IN  IF d.ok
        THEN Ran(TRUE,
                 IF "names" \in DOMAIN state
                 THEN [state EXCEPT !.names = d.val.names] ELSE state,
                 NoErr, q, << >>)
        ELSE Ran(FALSE, state, d.err, q, << >>)

\* cli.rs:498-515
run_status(state, resp) ==
    LET d == get_dashboard(state.client, resp)
        q == <<Req("get_dashboard", << >>, d)>>
    IN  IF d.ok THEN Ran(TRUE, state, NoErr, q, << >>)
        ELSE Ran(FALSE, state, d.err, q, << >>)

\* cli.rs:331-413, the `next` command
run_next(state, args, env) ==
    CASE state.tag = "Init" ->
            run_next_Init(state, env.seed, env.ck, env.reg)
      [] state.tag = "Setup" -> run_next_Setup(state, env.dash)
      [] state.tag = "ConcludedRegistration" ->
            run_next_ConcludedRegistration(state, args, env.sks)
      [] state.tag = "SubmittedSks" -> run_next_SubmittedSks(state, env.run)
      [] state.tag = "TriggeredRun" ->
            run_next_TriggeredRun(state, env.run, env.out, env.sub)
      [] state.tag = "DownloadedOutput" ->
            run_next_DownloadedOutput(state, env.failAt, env.fail)
      [] state.tag = "Decrypted" -> run_next_Decrypted(state)

\* run(state, line): env holds the answers of the coordinator and of the
\* key generator to whatever the command asks them.
run(state, line, env) ==
    LET terms == split_whitespace(line)
    IN  IF terms = << >> THEN Ran(TRUE, state, NoErr, << >>, << >>)
        ELSE
          LET cmd == terms[1]
              args == Tail(terms)
          IN  IF cmd = L_next THEN run_next(state, args, env)
              ELSE IF cmd = L_init THEN run_init(state, cmd, env.act)
              ELSE IF cmd = L_setup_game THEN run_setup_game(state, cmd, env.act)
              ELSE IF cmd = L_move THEN run_move(state, cmd, args, env.act)
              ELSE IF cmd = L_lay THEN run_lay(state, cmd, env.act)
              ELSE IF cmd = L_pickup THEN run_pickup(state, cmd, env.act)
              ELSE IF cmd = L_done THEN run_done(state, cmd, env.act)
              ELSE IF cmd = L_status THEN run_status(state, env.dash)
              ELSE IF starts_with_hash(cmd)
              THEN Ran(TRUE, state, NoErr, << >>, << >>)
              ELSE Ran(FALSE, state, <<"Unknown command ", cmd>>, << >>, << >>)

(***************************************************************************)
(* The session: main's loop.                                               *)
(***************************************************************************)
VARIABLES
    state,          \* `state` of main: the current phase and its fields
    prev,           \* the phase the last command was applied to
    last,           \* the last command: line, Ok/Err, requests, engine calls
    fetchedOnce,    \* pairs whose share was fetched successfully
    fetchedAgain,   \* pairs whose share was fetched successfully twice
    registered,     \* successful register requests so far (2: two or more)
    issued,         \* the id of the last successful register response
    captured,       \* the roster of the response that concluded registration
    refused,        \* a register request failed, in Init or on leaving it
    reader,         \* the ProgressReader of an upload
    emitted,        \* the bytes it has put into read buffers, in order
    read            \* its last poll_read: buffer room, position before, bytes put

vars == <<state, prev, last, fetchedOnce, fetchedAgain, registered, issued,
          captured, refused, reader, emitted, read>>

\* No upload is observed: the session is.
NoReader == << >>
NoRead == << >>
Idle == reader = NoReader /\ emitted = << >> /\ read = NoRead

\* The name given on the command line: opaque, so one stands for all.
CliNames == {"alice"}
ServerStates == {"RunningFhe", "CompletedFhe"}

\* The roster of m participants in which participant user_id is `name`.
Roster(m, user_id, name) ==
    [i \in 1..m |-> IF i - 1 = user_id THEN name ELSE "peer"]

\* Dashboards the coordinator can answer once it has registered this
\* participant: ids index the roster, so the roster holds the participant.
DashboardsWith(user_id, name) ==
    {[concluded |-> c, names |-> Roster(m, user_id, name)] :
        c \in BOOLEAN, m \in (user_id + 1)..MaxUsers}

\* Dashboards answered to `status`, which reads none of it.
DashboardsAny ==
    {[concluded |-> c, names |-> [i \in 1..m |-> "peer"]] :
        c \in BOOLEAN, m \in {0, MaxUsers}}

NoResp == OkResp(NoVal)

NoEnv ==
    [seed |-> NoResp, ck |-> "ck_a", reg |-> NoResp, dash |-> NoResp,
     sks |-> NoResp, run |-> NoResp, out |-> NoResp, sub |-> NoResp,
     act |-> NoResp, failAt |-> 0, fail |-> NoResp]

IsCmd(line, c) ==
    LET terms == split_whitespace(line) IN terms # << >> /\ terms[1] = c

\* The lines whose command is c.
LinesOf(c) == {line \in Lines : IsCmd(line, c)}

NextLines == LinesOf(L_next)
InitLines == LinesOf(L_init)
SetupGameLines == LinesOf(L_setup_game)
MoveLines == LinesOf(L_move)
LayLines == LinesOf(L_lay)
PickupLines == LinesOf(L_pickup)
DoneLines == LinesOf(L_done)
StatusLines == LinesOf(L_status)

OkFetches(reqs) ==
    {i \in DOMAIN reqs : reqs[i].op = "get_decryption_share" /\ reqs[i].ok}

\* Highest index of a non-empty set of indices.
Latest(idx) == CHOOSE i \in idx : \A j \in idx : j <= i

NoId == -1

\* main before its loop, with `client` the coordinator client.
InitWith(clients) ==
    /\ \E name \in CliNames, client \in clients :
          state = StateInit(name, client)
    /\ prev = state
    /\ last = [line |-> << >>, ok |-> TRUE, err |-> NoErr, reqs |-> << >>,
               eng |-> << >>, panic |-> FALSE]
    /\ fetchedOnce = {}
    /\ fetchedAgain = {}
    /\ registered = 0
    /\ issued = NoId
    /\ captured = << >>
    /\ refused = FALSE
    /\ Idle

\* cli.rs:132: main builds the client with WebClient::new.
Init == InitWith({WebClient_new("http://coordinator")})

\* run() driven with either backend of the client.
InitBackends == InitWith({WebClient_new("http://coordinator"), WebClient_Test})

\* cli.rs:142: state = run(state, line), observed.
Step(line, env) ==
    \E r \in {run(state, line, env)} :
      LET got == OkFetches(r.reqs)
          new == {r.reqs[i].arg : i \in got}
          twice == {r.reqs[i].arg : i \in {j \in got :
                      \E k \in got : k # j /\ r.reqs[k].arg = r.reqs[j].arg}}
          regs == OkOf(r.reqs, "register")
          dashes == OkOf(r.reqs, "get_dashboard")
      IN  /\ ~last.panic
          /\ state' = r.state
          /\ prev' = state
          /\ last' = [line |-> line, ok |-> r.ok, err |-> r.err, reqs |-> r.reqs,
                      eng |-> r.eng, panic |-> r.panic]
          /\ fetchedOnce' = fetchedOnce \cup new
          /\ fetchedAgain' = fetchedAgain \cup (new \cap fetchedOnce) \cup twice
          /\ registered' = IF regs = {} THEN registered
                           ELSE IF registered + Cardinality(regs) > 1 THEN 2
                           ELSE 1
          /\ issued' = IF regs = {} THEN issued
                       ELSE r.reqs[Latest(regs)].resp.body.id
          /\ captured' = IF /\ state.tag = "Setup"
                            /\ r.state.tag = "ConcludedRegistration"
                            /\ dashes # {}
                         THEN r.reqs[Latest(dashes)].resp.body.names
                         ELSE captured
          /\ refused' = IF state.tag = "Init"
                        THEN refused \/ \E i \in DOMAIN r.reqs :
                                r.reqs[i].op = "register" /\ ~r.reqs[i].ok
                        ELSE FALSE
          /\ UNCHANGED <<reader, emitted, read>>

\* What the coordinator may answer the current client to a request whose
\* decoded 200 body is one of `bodies`.
Answers(bodies) == Dispatch(state.client, Responses(bodies))

\* The answers to a request a command sends only once `sent` holds of the
\* answers to its earlier requests: none otherwise.
After(sent, answers) == IF sent THEN answers ELSE {NoResp}

\* trigger_fhe_run answered that the run is completed.
Completed(runResp) == runResp.kind = "ok" /\ runResp.body = "CompletedFhe"

NextInit ==
    /\ state.tag = "Init"
    /\ \E line \in NextLines, ck \in Keys, seedResp \in Answers({"seed"}) :
          \E regResp \in After(seedResp.kind = "ok",
                               Answers({[id |-> i, name |-> state.name] :
                                           i \in 0..(MaxUsers - 1)})) :
             Step(line, [NoEnv EXCEPT !.seed = seedResp, !.ck = ck,
                                         !.reg = regResp])

NextSetup ==
    /\ state.tag = "Setup"
    /\ \E line \in NextLines,
          dashResp \in Answers(DashboardsWith(state.user_id, state.name)) :
          Step(line, [NoEnv EXCEPT !.dash = dashResp])

NextConcludedRegistration ==
    /\ state.tag = "ConcludedRegistration"
    /\ \E line \in NextLines, resp \in Answers({state.user_id}) :
          Step(line, [NoEnv EXCEPT !.sks = resp])

NextSubmittedSks ==
    /\ state.tag = "SubmittedSks"
    /\ \E line \in NextLines, resp \in Answers(ServerStates) :
          Step(line, [NoEnv EXCEPT !.run = resp])

NextTriggeredRun ==
    /\ state.tag = "TriggeredRun"
    /\ \E line \in NextLines, runResp \in Answers(ServerStates) :
          \E outResp \in After(Completed(runResp),
                               Answers({[n |-> n] : n \in 0..MaxOutputs})) :
             \E subResp \in After(Completed(runResp) /\ outResp.kind = "ok",
                                  Answers({state.user_id})) :
                Step(line, [NoEnv EXCEPT !.run = runResp, !.out = outResp,
                                            !.sub = subResp])

\* The pairs of [0,n) x [0,m) the map of a DownloadedOutput phase lacks.
Missing(s) ==
    {p \in (0..(co_n(s.fhe_out) - 1)) \X (0..(Len(s.names) - 1)) :
        p \notin DOMAIN s.shares}

NextDownloadedOutput ==
    /\ state.tag = "DownloadedOutput"
    /\ \E line \in NextLines :
          \/ Step(line, NoEnv)
          \/ \E failAt \in 1..Cardinality(Missing(state)),
                failResp \in Dispatch(state.client, FailResponses(NoVal)) :
                Step(line, [NoEnv EXCEPT !.failAt = failAt, !.fail = failResp])

NextDecrypted ==
    /\ state.tag = "Decrypted"
    /\ \E line \in NextLines : Step(line, NoEnv)

\* init, setup_game, move, lay, pickup, done: in any phase.
\* Only SubmittedSks sends the request the response answers.
ActResponses ==
    IF state.tag = "SubmittedSks" THEN Answers({state.user_id}) ELSE {NoResp}

CmdInit ==
    \E line \in InitLines, resp \in ActResponses :
        Step(line, [NoEnv EXCEPT !.act = resp])

CmdSetupGame ==
    \E line \in SetupGameLines, resp \in ActResponses :
        Step(line, [NoEnv EXCEPT !.act = resp])

CmdMove ==
    \E line \in MoveLines, resp \in ActResponses :
        Step(line, [NoEnv EXCEPT !.act = resp])

CmdLay ==
    \E line \in LayLines, resp \in ActResponses :
        Step(line, [NoEnv EXCEPT !.act = resp])

CmdPickup ==
    \E line \in PickupLines, resp \in ActResponses :
        Step(line, [NoEnv EXCEPT !.act = resp])

CmdDone ==
    \E line \in DoneLines, resp \in ActResponses :
        Step(line, [NoEnv EXCEPT !.act = resp])

CmdStatus ==
    \E line \in StatusLines, resp \in Answers(DashboardsAny) :
        Step(line, [NoEnv EXCEPT !.dash = resp])

KnownCmds ==
    {L_next, L_init, L_setup_game, L_move, L_lay, L_pickup, L_done, L_status}

OtherLines == {line \in Lines : \A c \in KnownCmds : ~IsCmd(line, c)}

\* An empty line, a comment or an unknown command.
CmdOther == \E line \in OtherLines : Step(line, NoEnv)

Next ==
    \/ NextInit
    \/ NextSetup
    \/ NextConcludedRegistration
    \/ NextSubmittedSks
    \/ NextTriggeredRun
    \/ NextDownloadedOutput
    \/ NextDecrypted
    \/ CmdInit
    \/ CmdSetupGame
    \/ CmdMove
    \/ CmdLay
    \/ CmdPickup
    \/ CmdDone
    \/ CmdStatus
    \/ CmdOther

Spec == Init /\ [][Next]_vars

SpecBackends == InitBackends /\ [][Next]_vars

(***************************************************************************)
(* The session of a user who types nothing but `next`, with a coordinator  *)
(* whose failures are transport faults.  A Good step is a `next` that      *)
(* gets on: in Init, Setup, ConcludedRegistration, SubmittedSks and        *)
(* TriggeredRun all its requests succeed, with registration concluded and  *)
(* the run completed; in DownloadedOutput at least the first fetch of the  *)
(* pass succeeds.  A Stall step is any other `next`.                       *)
(***************************************************************************)
Fault == [kind |-> "fault", body |-> NoVal, text |-> <<"connection refused">>]

GoodInit ==
    /\ state.tag = "Init"
    /\ \E line \in NextLines, ck \in Keys, i \in 0..(MaxUsers - 1) :
          Step(line, [NoEnv EXCEPT !.seed = OkResp("seed"), !.ck = ck,
                         !.reg = OkResp([id |-> i, name |-> state.name])])

StallInit ==
    /\ state.tag = "Init"
    /\ \E line \in NextLines, ck \in Keys :
          \/ Step(line, [NoEnv EXCEPT !.seed = Fault, !.ck = ck])
          \/ Step(line, [NoEnv EXCEPT !.seed = OkResp("seed"), !.ck = ck,
                                      !.reg = Fault])

GoodSetup ==
    /\ state.tag = "Setup"
    /\ \E line \in NextLines, m \in (state.user_id + 1)..MaxUsers :
          Step(line, [NoEnv EXCEPT !.dash =
                         OkResp([concluded |-> TRUE,
                                 names |-> Roster(m, state.user_id, state.name)])])

StallSetup ==
    /\ state.tag = "Setup"
    /\ \E line \in NextLines :
          \/ Step(line, [NoEnv EXCEPT !.dash = Fault])
          \/ \E m \in (state.user_id + 1)..MaxUsers :
                Step(line, [NoEnv EXCEPT !.dash =
                               OkResp([concluded |-> FALSE,
                                       names |-> Roster(m, state.user_id,
                                                        state.name)])])

GoodConcludedRegistration ==
    /\ state.tag = "ConcludedRegistration"
    /\ \E line \in NextLines :
          Step(line, [NoEnv EXCEPT !.sks = OkResp(state.user_id)])

StallConcludedRegistration ==
    /\ state.tag = "ConcludedRegistration"
    /\ \E line \in NextLines : Step(line, [NoEnv EXCEPT !.sks = Fault])

GoodSubmittedSks ==
    /\ state.tag = "SubmittedSks"
    /\ \E line \in NextLines, st \in ServerStates :
          Step(line, [NoEnv EXCEPT !.run = OkResp(st)])

StallSubmittedSks ==
    /\ state.tag = "SubmittedSks"
    /\ \E line \in NextLines : Step(line, [NoEnv EXCEPT !.run = Fault])

GoodTriggeredRun ==
    /\ state.tag = "TriggeredRun"
    /\ \E line \in NextLines, n \in 0..MaxOutputs :
          Step(line, [NoEnv EXCEPT !.run = OkResp("CompletedFhe"),
                                      !.out = OkResp([n |-> n]),
                                      !.sub = OkResp(state.user_id)])

StallTriggeredRun ==
    /\ state.tag = "TriggeredRun"
    /\ \E line \in NextLines :
          \/ Step(line, [NoEnv EXCEPT !.run = Fault])
          \/ Step(line, [NoEnv EXCEPT !.run = OkResp("RunningFhe")])
          \/ Step(line, [NoEnv EXCEPT !.run = OkResp("CompletedFhe"),
                                      !.out = Fault])
          \/ \E n \in 0..MaxOutputs :
                Step(line, [NoEnv EXCEPT !.run = OkResp("CompletedFhe"),
                                            !.out = OkResp([n |-> n]),
                                            !.sub = Fault])

GoodPass ==
    /\ state.tag = "DownloadedOutput"
    /\ \E line \in NextLines :
          \/ Step(line, NoEnv)
          \/ \E failAt \in 2..Cardinality(Missing(state)) :
                Step(line, [NoEnv EXCEPT !.failAt = failAt, !.fail = Fault])

StallPass ==
    /\ state.tag = "DownloadedOutput"
    /\ Missing(state) # {}
    /\ \E line \in NextLines :
          Step(line, [NoEnv EXCEPT !.failAt = 1, !.fail = Fault])

NextLive ==
    \/ GoodInit
    \/ StallInit
    \/ GoodSetup
    \/ StallSetup
    \/ GoodConcludedRegistration
    \/ StallConcludedRegistration
    \/ GoodSubmittedSks
    \/ StallSubmittedSks
    \/ GoodTriggeredRun
    \/ StallTriggeredRun
    \/ GoodPass
    \/ StallPass
    \/ NextDecrypted

\* The user keeps typing `next` and no request fails for ever: a Good step
\* that stays possible is taken.
Patience ==
    /\ WF_vars(GoodInit)
    /\ WF_vars(GoodSetup)
    /\ WF_vars(GoodConcludedRegistration)
    /\ WF_vars(GoodSubmittedSks)
    /\ WF_vars(GoodTriggeredRun)
    /\ WF_vars(GoodPass)

SpecLive == Init /\ [][NextLive]_vars /\ Patience

(***************************************************************************)
(* One aggregation pass on its own: cmd_download_shares applied, with      *)
(* every fetch succeeding, to a DownloadedOutput phase whose map holds     *)
(* any subset of [0,n) x [0,m) (small n, m), or the participant's own      *)
(* shares only (larger n, m).                                              *)
(***************************************************************************)
AggOutputs == 3     \* largest n with an arbitrary map
AggUsers == 3       \* largest m with an arbitrary map
SeedOutputs == 4    \* largest n with a map holding the own shares only
SeedUsers == 4      \* largest m with a map holding the own shares only

OwnColumn(n, own) == {<<o, own>> : o \in 0..(n - 1)}

\* The map holding the pairs of `held`: the participant's own shares are
\* the local ones, the others were served by the coordinator.
HeldShares(held, own, ck) ==
    [p \in held |-> IF p[2] = own
                    THEN [by |-> "local", ck |-> ck, out |-> p[1]]
                    ELSE CoordinatorShare(p[1], p[2])]

\* The DownloadedOutput phase of participant `own` with n outputs, a roster
\* of m names and a map holding the pairs of `held`.
AggState(n, m, own, held) ==
    StateDownloadedOuput("alice", WebClient_new("http://coordinator"), "ck_a",
                         Roster(m, own, "alice"), [n |-> n],
                         HeldShares(held, own, "ck_a"))

InitAgg ==
    /\ \/ \E n \in 0..AggOutputs, m \in 0..AggUsers :
             \E held \in SUBSET ((0..(n - 1)) \X (0..(m - 1))) :
                state = AggState(n, m, 0, held) /\ issued = 0
       \/ \E n \in 1..SeedOutputs, m \in 1..SeedUsers :
             \E own \in 0..(m - 1) :
                state = AggState(n, m, own, OwnColumn(n, own)) /\ issued = own
    /\ prev = state
    /\ last = [line |-> << >>, ok |-> TRUE, err |-> NoErr, reqs |-> << >>,
               eng |-> << >>, panic |-> FALSE]
    /\ fetchedOnce = {}
    /\ fetchedAgain = {}
    /\ registered = 1
    /\ captured = state.names
    /\ refused = FALSE
    /\ Idle

\* `next` in DownloadedOutput with a coordinator that serves every share.
AggPass ==
    /\ state.tag = "DownloadedOutput"
    /\ \E line \in NextLines : Step(line, NoEnv)

NextAgg == AggPass

SpecAgg == InitAgg /\ [][NextAgg]_vars

(***************************************************************************)
(* Properties.                                                             *)
(***************************************************************************)
(***************************************************************************)
(* An upload on its own: the ProgressReader that post_msgpack wraps around *)
(* the encoded body (client.rs:103-105), polled by the stream that feeds   *)
(* the request.  Each poll_read is one step; the room left in the buffer   *)
(* it is handed is the caller's choice.                                    *)
(***************************************************************************)
MaxBody == 4        \* longest body uploaded
MaxChunk == 2       \* largest chunk_size (post_msgpack's 128 * 1024, scaled)
MaxBuf == 3         \* most room a read buffer has left

Bytes == {"a", "b"}

Bodies == UNION {[1..n -> Bytes] : n \in 0..MaxBody}

Min(a, b) == IF a <= b THEN a ELSE b

\* The bar as the reader drives it: the length it was made for, the position
\* and the message last set, whether it was finished.
ProgressBar_new(total_bytes) ==
    [len |-> total_bytes, position |-> 0, message |-> "", finished |-> FALSE]

\* ProgressReader::new (client.rs:293-312)
ProgressReader_new(body, chunk_size) ==
    [inner |-> body,
     progress_bar |-> [ProgressBar_new(Len(body)) EXCEPT !.message = "Uploading..."],
     position |-> 0,
     chunk_size |-> chunk_size]

\* ProgressReader::poll_read (client.rs:316-333) on a buffer with room for
\* buf_remaining bytes: the reader afterwards, and the slice put into buf.
poll_read(self, buf_remaining) ==
    LET remaining == Len(self.inner) - self.position
        to_read == Min(self.chunk_size, Min(remaining, buf_remaining))
        end == self.position + to_read
        bar == [self.progress_bar EXCEPT !.position = end]
    IN  [self |-> [self EXCEPT
                     !.position = end,
                     !.progress_bar =
                         IF to_read = 0
                         THEN [bar EXCEPT !.finished = TRUE,
                                          !.message = "Upload complete"]
                         ELSE bar],
         put |-> SubSeq(self.inner, self.position + 1, end)]

\* The session is not observed during an upload.
InitUpload ==
    /\ state = StateInit("alice", WebClient_new("http://coordinator"))
    /\ prev = state
    /\ last = [line |-> << >>, ok |-> TRUE, err |-> NoErr, reqs |-> << >>,
               eng |-> << >>, panic |-> FALSE]
    /\ fetchedOnce = {}
    /\ fetchedAgain = {}
    /\ registered = 0
    /\ issued = NoId
    /\ captured = << >>
    /\ refused = FALSE
    /\ \E body \in Bodies, chunk_size \in 1..MaxChunk :
          reader = ProgressReader_new(body, chunk_size)
    /\ emitted = << >>
    /\ read = [room |-> 0, from |-> 0, put |-> << >>, polled |-> FALSE]

\* One poll_read, observed.
PollRead(buf_remaining) ==
    \E r \in {poll_read(reader, buf_remaining)} :
        /\ reader' = r.self
        /\ emitted' = emitted \o r.put
        /\ read' = [room |-> buf_remaining, from |-> reader.position,
                    put |-> r.put, polled |-> TRUE]
        /\ UNCHANGED <<state, prev, last, fetchedOnce, fetchedAgain, registered,
                       issued, captured, refused>>

\* A read into a buffer with room left.
PollReadRoom == \E buf_remaining \in 1..MaxBuf : PollRead(buf_remaining)

\* A read into a buffer that is full.
PollReadFull == PollRead(0)

NextUpload ==
    \/ PollReadRoom
    \/ PollReadFull

SpecUpload == InitUpload /\ [][NextUpload]_vars

Phases ==
    <<"Init", "Setup", "ConcludedRegistration", "SubmittedSks", "TriggeredRun",
      "DownloadedOutput", "Decrypted">>

Rank(tag) == CHOOSE i \in DOMAIN Phases : Phases[i] = tag

\* The command of the last line (its first term), << >> if it had none.
LastCmd ==
    LET terms == split_whitespace(last.line)
    IN  IF terms = << >> THEN << >> ELSE terms[1]

GameCmds == {L_init, L_setup_game, L_move, L_lay, L_pickup, L_done}

\* The last command was `next` applied to a DownloadedOutput phase.
LastWasPass == prev.tag = "DownloadedOutput" /\ LastCmd = L_next

\* The pairs the last command fetched successfully.
LastFetched == {last.reqs[i].arg : i \in OkFetches(last.reqs)}

\* [0,n) x [0,m) of a DownloadedOutput phase.
Domain(s) == (0..(co_n(s.fhe_out) - 1)) \X (0..(Len(s.names) - 1))

LexLess(p, q) == p[1] < q[1] \/ (p[1] = q[1] /\ p[2] < q[2])

\* C1: whatever the command and whatever the coordinator answers, the phase
\* after a command is the phase before it or that phase's immediate
\* successor in Init, Setup, ConcludedRegistration, SubmittedKeyShare,
\* TriggeredRun, DownloadedOutput, Decrypted.
C1_PhaseOrder ==
    \/ Rank(state.tag) = Rank(prev.tag)
    \/ Rank(state.tag) = Rank(prev.tag) + 1

C1_Witness ==
    /\ state.tag = "Decrypted"
    /\ prev.tag = "DownloadedOutput"
    /\ last.ok

\* C2 as stated: when run() returns a failure, the phase returned with the
\* error equals the phase before the attempt, variant and every field, the
\* ShareMatrix of DownloadedOutput included.
C2_FailureLeavesPhaseIdentical == ~last.ok => state = prev

\* C2 amended: when run() returns a failure, the phase returned has the
\* variant and the field values of the phase before the attempt, except
\* that after a failed `next` in DownloadedOutput the ShareMatrix holds, in
\* addition to its entries before the attempt (unchanged), the shares
\* fetched successfully before the failing request.
C2_FailureKeepsPhaseButShares ==
    ~last.ok =>
        /\ state.tag = prev.tag
        /\ state.tag # "DownloadedOutput" => state = prev
        /\ state.tag = "DownloadedOutput" =>
              /\ [state EXCEPT !.shares = prev.shares] = prev
              /\ DOMAIN state.shares = DOMAIN prev.shares \cup LastFetched
              /\ \A p \in DOMAIN prev.shares : state.shares[p] = prev.shares[p]
              /\ LastCmd # L_next => state = prev

C2_Witness ==
    /\ ~last.ok
    /\ state.tag = "DownloadedOutput"
    /\ LastCmd = L_next
    /\ state.shares # prev.shares

\* C3: a pass in which every fetch succeeds requests exactly the pairs of
\* [0,n) x [0,m) missing from the map it started from, each once, none
\* that was present, in strictly increasing (output_index, participant_id)
\* order; from the participant's own 4 shares with n = 4 and m = 4 these
\* are 12 requests.
C3_OnePassFetchesMissingInOrder ==
    (LastWasPass /\ last.ok) =>
        /\ \A i \in DOMAIN last.reqs :
              /\ last.reqs[i].op = "get_decryption_share"
              /\ last.reqs[i].arg \in Missing(prev)
        /\ \A p \in Missing(prev) :
              Cardinality({i \in DOMAIN last.reqs : last.reqs[i].arg = p}) = 1
        /\ \A i \in 1..(Len(last.reqs) - 1) :
              LexLess(last.reqs[i].arg, last.reqs[i + 1].arg)
        /\ (/\ co_n(prev.fhe_out) = 4
            /\ Len(prev.names) = 4
            /\ \E own \in 0..3 : DOMAIN prev.shares = OwnColumn(4, own))
              => Len(last.reqs) = 12

C3_Witness ==
    /\ LastWasPass
    /\ last.ok
    /\ co_n(prev.fhe_out) = 3
    /\ Len(prev.names) = 3
    /\ DOMAIN prev.shares = {<<0, 1>>, <<1, 0>>, <<1, 2>>, <<2, 2>>}
    /\ Len(last.reqs) = 5

C3_WitnessScenario ==
    /\ LastWasPass
    /\ last.ok
    /\ co_n(prev.fhe_out) = 4
    /\ Len(prev.names) = 4
    /\ DOMAIN prev.shares = OwnColumn(4, 2)
    /\ Len(last.reqs) = 12

\* C4: over all the passes of a session no pair is fetched successfully
\* twice, and no pass requests a pair its map already held, be it seeded
\* locally or inserted by an earlier pass.
C4_NoPairFetchedAgain ==
    /\ fetchedAgain = {}
    /\ LastWasPass =>
          \A i \in DOMAIN last.reqs : last.reqs[i].arg \notin DOMAIN prev.shares

\* A pass that follows one which inserted fetched shares, and fetches more.
C4_Witness ==
    /\ LastWasPass
    /\ fetchedOnce \cap DOMAIN prev.shares # {}
    /\ LastFetched # {}
    /\ Missing(prev) # {}

\* C5: while the session is in DownloadedOutput a command leaves every
\* entry of the ShareMatrix in place with its share value.
C5_SharesGrowMonotonically ==
    (prev.tag = "DownloadedOutput" /\ state.tag = "DownloadedOutput") =>
        \A p \in DOMAIN prev.shares :
            p \in DOMAIN state.shares /\ state.shares[p] = prev.shares[p]

C5_Witness ==
    /\ prev.tag = "DownloadedOutput"
    /\ state.tag = "DownloadedOutput"
    /\ Cardinality(DOMAIN state.shares) > Cardinality(DOMAIN prev.shares) + 1

\* The decrypt calls of the last command.
LastDecrypts == CallsOf(last.eng, "decrypt")

\* C6: a `next` in DownloadedOutput calls decrypt if and only if the map,
\* after the fetches of the pass, holds exactly the pairs of [0,n) x [0,m);
\* expect("exists") never panics; decrypt receives n lists of m shares,
\* list i being the entries (i,0)..(i,m-1) in participant-id order.
C6_DecryptIffComplete ==
    /\ ~last.panic
    /\ LastWasPass =>
        LET held == DOMAIN prev.shares \cup LastFetched
            value(p) == IF p \in DOMAIN prev.shares THEN prev.shares[p]
                        ELSE CoordinatorShare(p[1], p[2])
            n == co_n(prev.fhe_out)
            m == Len(prev.names)
        IN  /\ (LastDecrypts # {}) <=> (held = Domain(prev))
            /\ Cardinality(LastDecrypts) <= 1
            /\ \A i \in LastDecrypts :
                  LET dss == last.eng[i].arg[2]
                  IN  /\ last.eng[i].arg[1] = prev.ck
                      /\ Len(dss) = n
                      /\ \A o \in 1..n :
                            /\ Len(dss[o]) = m
                            /\ \A u \in 1..m : dss[o][u] = value(<<o - 1, u - 1>>)
    /\ ~LastWasPass => LastDecrypts = {}

C6_Witness ==
    /\ LastWasPass
    /\ LastDecrypts # {}
    /\ co_n(prev.fhe_out) >= 2
    /\ Len(prev.names) >= 3
    /\ LastFetched # {}
    /\ state.tag = "Decrypted"

\* C7: when a fetch fails, it is the last request of the pass, decrypt is
\* not called, the command fails, the phase is still DownloadedOutput and
\* its map is the map before the pass plus the shares fetched before the
\* failure.
C7_FailedFetchAbortsPass ==
    (LastWasPass /\ \E i \in DOMAIN last.reqs : ~last.reqs[i].ok) =>
        /\ \A i \in DOMAIN last.reqs : ~last.reqs[i].ok => i = Len(last.reqs)
        /\ LastDecrypts = {}
        /\ ~last.ok
        /\ state.tag = "DownloadedOutput"
        /\ DOMAIN state.shares = DOMAIN prev.shares \cup LastFetched
        /\ \A p \in DOMAIN prev.shares : state.shares[p] = prev.shares[p]
        /\ \A p \in LastFetched : state.shares[p] = CoordinatorShare(p[1], p[2])

C7_Witness ==
    /\ LastWasPass
    /\ ~last.ok
    /\ Cardinality(LastFetched) >= 2
    /\ Cardinality(Missing(state)) >= 2

\* The key shares the last command derived.
LastKeyShares ==
    {last.eng[i].arg : i \in {j \in DOMAIN last.eng :
                                 last.eng[j].fn = "gen_server_key_share"}}

\* C8: the key share derived and submitted by `next` in
\* ConcludedRegistration has a total-participant count equal to the length
\* of the roster held by that phase.
C8_KeyShareCountIsRosterLength ==
    (prev.tag = "ConcludedRegistration" /\ LastCmd = L_next) =>
        /\ \A sks \in LastKeyShares : sks.total_users = Len(prev.names)
        /\ \A i \in DOMAIN last.reqs :
              last.reqs[i].op = "submit_sks" =>
                  last.reqs[i].arg[2].total_users = Len(prev.names)

\* C9: a game command in a phase other than SubmittedKeyShare fails, sends
\* no request, calls nothing and leaves the phase as it was; no command
\* applied to Init sends a key-share submission.
C9_GameCmdRejectedOutsideSubmittedSks ==
    /\ (LastCmd \in GameCmds /\ prev.tag # "SubmittedSks") =>
          /\ ~last.ok
          /\ last.reqs = << >>
          /\ last.eng = << >>
          /\ state = prev
    /\ prev.tag = "Init" =>
          \A i \in DOMAIN last.reqs : last.reqs[i].op # "submit_sks"

C9_Witness ==
    /\ LastCmd = L_done
    /\ prev.tag = "TriggeredRun"
    /\ ~last.ok

C9_WitnessInit ==
    /\ LastCmd \in GameCmds
    /\ prev.tag = "Init"
    /\ ~last.ok

\* C10: a game command that succeeds in SubmittedKeyShare returns
\* SubmittedKeyShare with every field as before; all it did is one request
\* to the coordinator.
C10_GameCmdIsNoOpOnPhase ==
    (LastCmd \in GameCmds /\ prev.tag = "SubmittedSks" /\ last.ok) =>
        /\ state = prev
        /\ Len(last.reqs) = 1
        /\ last.reqs[1].op = "request_action"
        /\ last.reqs[1].arg[1] = prev.user_id
        /\ last.eng = << >>

C10_Witness ==
    /\ LastCmd = L_move
    /\ prev.tag = "SubmittedSks"
    /\ last.ok
    /\ Len(prev.names) >= 2

\* The last command issued one request, a successful get_dashboard.
LastGotDashboard ==
    /\ Len(last.reqs) = 1
    /\ last.reqs[1].op = "get_dashboard"
    /\ last.reqs[1].ok

\* C11: `next` in Setup whose roster-status request succeeds returns
\* success; with concluded = false the phase is the Setup phase it was, every
\* field unchanged; with concluded = true it is ConcludedRegistration holding
\* the Setup fields and the roster of that same response.  Setup is left in
\* no other way.
C11_SetupPollsUntilConcluded ==
    /\ (prev.tag = "Setup" /\ LastCmd = L_next /\ LastGotDashboard) =>
          LET d == last.reqs[1].resp.body
          IN  /\ last.ok
              /\ ~d.concluded => state = prev
              /\ d.concluded =>
                    state = Registration(prev.name, prev.client, prev.ck,
                                         prev.user_id, d.names)
    /\ (prev.tag = "Setup" /\ state.tag # "Setup") =>
          /\ LastCmd = L_next
          /\ LastGotDashboard
          /\ last.reqs[1].resp.body.concluded
          /\ state.tag = "ConcludedRegistration"

C11_Witness ==
    /\ prev.tag = "Setup"
    /\ LastCmd = L_next
    /\ LastGotDashboard
    /\ ~last.reqs[1].resp.body.concluded
    /\ Len(last.reqs[1].resp.body.names) >= 2
    /\ state = prev

\* C12: every command applied to Decrypted returns Decrypted with the same
\* roster and the same decrypted output; `next` does so with success and
\* without a coordinator request or an engine call.
C12_DecryptedIsTerminal ==
    prev.tag = "Decrypted" =>
        /\ state = prev
        /\ LastCmd = L_next =>
              /\ last.ok
              /\ last.reqs = << >>
              /\ last.eng = << >>

C12_Witness ==
    /\ prev.tag = "Decrypted"
    /\ LastCmd = L_next
    /\ last.ok
    /\ Len(state.decrypted_output) >= 2
    /\ Len(state.names) >= 2

\* C13: in every phase, a line without a token and a line whose first token
\* starts with '#' return success, a line whose first token is neither a
\* known command nor starts with '#' returns an error; all three return the
\* phase unchanged and issue no coordinator request.
C13_OtherLinesAreNoOps ==
    LET terms == split_whitespace(last.line)
        blank == terms = << >>
        comment == ~blank /\ terms[1][1] = "#"
        unknown == ~blank /\ ~comment /\ terms[1] \notin KnownCmds
    IN  /\ (blank \/ comment) =>
              last.ok /\ state = prev /\ last.reqs = << >>
        /\ unknown =>
              ~last.ok /\ state = prev /\ last.reqs = << >>

C13_Witness ==
    /\ last.line = L_unknown
    /\ prev.tag = "DownloadedOutput"
    /\ ~last.ok
    /\ state = prev

\* The phases that hold a roster.
RosterPhases ==
    {"ConcludedRegistration", "SubmittedSks", "TriggeredRun",
     "DownloadedOutput", "Decrypted"}

\* C14: from ConcludedRegistration through Decrypted the roster of the phase
\* is the roster of the response that concluded registration, whatever
\* rosters later responses carry; an aggregation pass asks for shares of
\* participants below that roster's length only, and a pass that decrypts
\* hands the engine that many shares per output.
C14_RosterFixedAtConclusion ==
    state.tag \in RosterPhases =>
        /\ state.names = captured
        /\ LastWasPass =>
              /\ \A i \in DOMAIN last.reqs :
                    last.reqs[i].op = "get_decryption_share" =>
                        last.reqs[i].arg[2] \in 0..(Len(captured) - 1)
              /\ \A i \in DOMAIN last.eng :
                    last.eng[i].fn = "decrypt" =>
                        \A o \in DOMAIN last.eng[i].arg[2] :
                            Len(last.eng[i].arg[2][o]) = Len(captured)

C14_Witness ==
    /\ state.tag = "TriggeredRun"
    /\ LastCmd = L_status
    /\ LastGotDashboard
    /\ last.reqs[1].resp.body.names # captured
    /\ state.names = captured
    /\ Len(captured) >= 2

\* sub occurs in seq as a run of consecutive elements.
Contains(seq, sub) ==
    \E i \in 0..(Len(seq) - Len(sub)) : SubSeq(seq, i + 1, i + Len(sub)) = sub

\* A response with a status other than 200.
NonSuccess(resp) == resp.kind \in {"status", "mute"}

\* The text an escaped text stands for: a backslash announces the character
\* after it.
RECURSIVE UnescapeFrom(_, _)
UnescapeFrom(mid, i) ==
    IF i > Len(mid) THEN << >>
    ELSE IF mid[i] = "\\" /\ i < Len(mid)
    THEN <<IF mid[i + 1] = "n" THEN "\n" ELSE mid[i + 1]>>
             \o UnescapeFrom(mid, i + 2)
    ELSE <<mid[i]>> \o UnescapeFrom(mid, i + 1)

\* err is "Server responded error: " followed by text in Debug form: between
\* double quotes, every double quote of the text behind a backslash.
IsDebugOf(err, text) ==
    /\ Len(err) >= 3
    /\ err[1] = "Server responded error: "
    /\ err[2] = "\""
    /\ err[Len(err)] = "\""
    /\ LET mid == SubSeq(err, 3, Len(err) - 1)
       IN  /\ UnescapeFrom(mid, 1) = text
           /\ \A j \in DOMAIN mid :
                 mid[j] = "\"" => (j > 1 /\ mid[j - 1] = "\\")
           /\ (\A j \in DOMAIN text : text[j] \notin {"\"", "\\", "\n"}) =>
                 mid = text

IdOps == {"submit_sks", "request_action", "submit_decryption_shares"}

\* C16: the participant id a phase holds is the id of the successful
\* register response; every submit_sks, game-action and
\* submit_decryption_shares request carries it; the shares generated
\* locally sit in the ShareMatrix under (output index, that id), and on
\* entry to DownloadedOutput these are all the keys.
C16_ParticipantIdIsTheRegisteredOne ==
    /\ "user_id" \in DOMAIN state => state.user_id = issued
    /\ \A i \in DOMAIN last.reqs :
          last.reqs[i].op \in IdOps => last.reqs[i].arg[1] = issued
    /\ state.tag = "DownloadedOutput" =>
          \A p \in DOMAIN state.shares :
              state.shares[p].by = "local" => p[2] = issued
    /\ (prev.tag = "TriggeredRun" /\ state.tag = "DownloadedOutput") =>
          DOMAIN state.shares = OwnColumn(co_n(state.fhe_out), issued)

C16_Witness ==
    /\ prev.tag = "TriggeredRun"
    /\ state.tag = "DownloadedOutput"
    /\ issued = 1
    /\ co_n(state.fhe_out) >= 2
    /\ DOMAIN state.shares = OwnColumn(co_n(state.fhe_out), 1)

\* C17: a register request is issued by `next` in Init only, and only
\* while no register request has succeeded: at most one ever succeeds, and
\* one has succeeded exactly when the phase is past Init.
C17_RegisteredExactlyOnce ==
    /\ registered <= 1
    /\ state.tag # "Init" <=> registered = 1
    /\ \A i \in DOMAIN last.reqs :
          last.reqs[i].op = "register" =>
              /\ prev.tag = "Init"
              /\ LastCmd = L_next
              /\ registered = IF last.reqs[i].ok THEN 1 ELSE 0

C17_Witness ==
    /\ registered = 1
    /\ prev.tag = "Setup"
    /\ state.tag = "Setup"
    /\ LastCmd = L_next
    /\ last.ok
    /\ \A i \in DOMAIN last.reqs : last.reqs[i].op # "register"

\* The last command was `next` applied to a TriggeredRun phase.
LastWasDownload == prev.tag = "TriggeredRun" /\ LastCmd = L_next

\* C19: `next` in TriggeredRun whose run-trigger request succeeds with a
\* status other than completed returns the error "FHE is still running" with
\* the TriggeredRun phase as it was, and issues no further request; the
\* output is fetched, and the shares are submitted, only after a completed
\* response to the run-trigger request of the same command.
C19_OutputOnlyAfterCompleted ==
    /\ (/\ LastWasDownload
        /\ last.reqs # << >>
        /\ last.reqs[1].ok
        /\ last.reqs[1].resp.body # "CompletedFhe") =>
          /\ ~last.ok
          /\ last.err = <<"FHE is still running">>
          /\ state = prev
          /\ Len(last.reqs) = 1
          /\ last.eng = << >>
    /\ \A i \in DOMAIN last.reqs :
          last.reqs[i].op \in {"get_fhe_output", "submit_decryption_shares"} =>
              /\ LastWasDownload
              /\ i > 1
              /\ last.reqs[1].op = "trigger_fhe_run"
              /\ last.reqs[1].ok
              /\ last.reqs[1].resp.body = "CompletedFhe"

C19_Witness ==
    /\ LastWasDownload
    /\ Len(last.reqs) = 1
    /\ last.reqs[1].op = "trigger_fhe_run"
    /\ last.reqs[1].ok
    /\ last.reqs[1].resp.body = "RunningFhe"
    /\ ~last.ok
    /\ state.tag = "TriggeredRun"

\* The indices of the failed share submissions of the last command.
FailedSubmissions ==
    {i \in DOMAIN last.reqs :
        last.reqs[i].op = "submit_decryption_shares" /\ ~last.reqs[i].ok}

\* C20: DownloadedOutput is entered by a `next` whose last request is the
\* successful submission of the participant's own shares; on entry the
\* ShareMatrix holds exactly those shares, under (output index, own id);
\* shares of others are fetched from DownloadedOutput only; a failed
\* submission leaves the TriggeredRun phase as it was, which has no
\* ShareMatrix.
C20_OwnSharesSubmittedBeforeEntry ==
    /\ (prev.tag # "DownloadedOutput" /\ state.tag = "DownloadedOutput") =>
          /\ LastWasDownload
          /\ last.ok
          /\ Len(last.reqs) = 3
          /\ last.reqs[3].op = "submit_decryption_shares"
          /\ last.reqs[3].ok
          /\ last.reqs[3].arg[1] = prev.user_id
          /\ Len(last.reqs[3].arg[2]) = co_n(state.fhe_out)
          /\ DOMAIN state.shares = OwnColumn(co_n(state.fhe_out), prev.user_id)
          /\ \A k \in DOMAIN last.reqs[3].arg[2] :
                LET out_id == last.reqs[3].arg[2][k][1]
                    share == last.reqs[3].arg[2][k][2]
                IN  /\ <<out_id, prev.user_id>> \in DOMAIN state.shares
                    /\ state.shares[<<out_id, prev.user_id>>] = share
                    /\ share.by = "local"
    /\ \A i \in DOMAIN last.reqs :
          last.reqs[i].op = "get_decryption_share" =>
              prev.tag = "DownloadedOutput"
    /\ FailedSubmissions # {} =>
          /\ ~last.ok
          /\ state = prev
          /\ state.tag = "TriggeredRun"
          /\ "shares" \notin DOMAIN state

C20_Witness ==
    /\ prev.tag = "TriggeredRun"
    /\ state.tag = "DownloadedOutput"
    /\ last.reqs[3].ok
    /\ co_n(state.fhe_out) >= 2
    /\ Len(state.names) >= 2
    /\ Cardinality(DOMAIN state.shares) = co_n(state.fhe_out)

\* The number of successful share fetches so far, a repeated one counted
\* twice.
SuccessfulFetches == Cardinality(fetchedOnce) + Cardinality(fetchedAgain)

\* C18: with a user who keeps issuing `next` and a coordinator whose
\* requests, retried, eventually succeed, whose roster is eventually
\* concluded and whose run is eventually completed, the session reaches
\* Decrypted; all along, the successful share fetches number at most n*m
\* less the n seeded entries.
C18_EventuallyDecrypted ==
    /\ <>(state.tag = "Decrypted")
    /\ [](/\ state.tag \notin {"DownloadedOutput", "Decrypted"} =>
                SuccessfulFetches = 0
          /\ state.tag = "DownloadedOutput" =>
                SuccessfulFetches <=
                    co_n(state.fhe_out) * Len(state.names) - co_n(state.fhe_out)
          /\ state.tag = "Decrypted" =>
                SuccessfulFetches =
                    Len(state.decrypted_output) * Len(state.names)
                        - Len(state.decrypted_output))

C18_Witness ==
    /\ state.tag = "Decrypted"
    /\ prev.tag = "DownloadedOutput"
    /\ Len(state.decrypted_output) >= 2
    /\ Len(state.names) >= 3
    /\ LastFetched # {}
    /\ Cardinality(LastFetched) < Cardinality(fetchedOnce)

\* The operations of the requests the last command issued, in order.
LastOps == [i \in DOMAIN last.reqs |-> last.reqs[i].op]

\* C21: `next` applied to Init requests the seed first and registers second:
\* it registers only after the seed fetch of the same command succeeded, and
\* the phase becomes Setup only when both requests of that command succeeded.
\* A `next` that follows a failed registration does the same, seed fetch
\* included.
C21_SeedThenRegister ==
    /\ (prev.tag = "Init" /\ LastCmd = L_next) =>
          /\ LastOps \in {<<"get_seed">>, <<"get_seed", "register">>}
          /\ Len(last.reqs) = 2 <=> last.reqs[1].ok
          /\ last.ok <=> \A i \in 1..2 : i \in DOMAIN last.reqs /\ last.reqs[i].ok
          /\ state.tag = (IF last.ok THEN "Setup" ELSE "Init")
    /\ (prev.tag = "Init" /\ state.tag = "Setup") =>
          /\ LastCmd = L_next
          /\ LastOps = <<"get_seed", "register">>
          /\ last.reqs[1].ok /\ last.reqs[2].ok

\* A `next` in Init that got the seed and was refused registration, then a
\* `next` that gets both.
C21_Witness ==
    /\ prev.tag = "Init"
    /\ state.tag = "Setup"
    /\ LastCmd = L_next
    /\ refused
    /\ LastOps = <<"get_seed", "register">>

\* The words the prompt of phase s puts between backquotes.
Advertised(s) ==
    LET msg == print_instruction(s)
    IN  {msg[i].text : i \in {j \in DOMAIN msg : msg[j].quoted}}

\* The last command was turned down by the dispatcher itself: as unknown, or
\* as invalid for the phase.
LastRejected ==
    /\ ~last.ok
    /\ last.err # NoErr
    /\ last.err[1] \in {"Unknown command ", "Invalid state for command "}

\* C22: a command that the prompt of a non-terminal phase puts forward
\* (`conclude` or `next` in Setup, `next` in the other phases) is not turned
\* down by run() in that phase, neither as unknown nor as invalid for it.
C22_AdvertisedCommandsAccepted ==
    (prev.tag # "Decrypted" /\ last.line \in Advertised(prev)) => ~LastRejected

\* The arguments of the last line: its terms after the first.
LastArgs ==
    LET terms == split_whitespace(last.line)
    IN  IF terms = << >> THEN << >> ELSE Tail(terms)

\* The last line was `move` without a direction, or with a first argument
\* that is none of up, down, left, right.
LastMoveMalformed ==
    /\ LastCmd = L_move
    /\ \/ LastArgs = << >>
       \/ /\ LastArgs # << >>
          /\ LastArgs[1] \notin {<<"u", "p">>, <<"d", "o", "w", "n">>,
                                 <<"l", "e", "f", "t">>,
                                 <<"r", "i", "g", "h", "t">>}

\* C23: `move` in SubmittedKeyShare without a direction, or with a direction
\* other than up, down, left, right, fails with the local fault of cmd_move
\* before any coordinator request is issued; the phase stays SubmittedKeyShare
\* with every field as before.
C23_MalformedMoveFailsLocally ==
    (prev.tag = "SubmittedSks" /\ LastMoveMalformed) =>
        /\ ~last.ok
        /\ last.err = (IF LastArgs = << >>
                       THEN <<"please add direction to move">>
                       ELSE <<"invalid commmit">>)
        /\ last.reqs = << >>
        /\ last.eng = << >>
        /\ state = prev
        /\ state.tag = "SubmittedSks"

C23_Witness ==
    /\ prev.tag = "SubmittedSks"
    /\ last.line = L_move_bad
    /\ ~last.ok
    /\ Len(state.names) >= 2

\* C24: `status` is accepted in each of the seven phases: it issues one
\* roster-status request and nothing else, succeeds exactly when that request
\* does, and returns the phase it was applied to with every field unchanged
\* either way.
C24_StatusReadsOnly ==
    LastCmd = L_status =>
        /\ prev.tag \in {Phases[i] : i \in DOMAIN Phases}
        /\ ~LastRejected
        /\ LastOps = <<"get_dashboard">>
        /\ last.reqs[1].arg = << >>
        /\ last.eng = << >>
        /\ last.ok <=> last.reqs[1].ok
        /\ state = prev

\* `status` failing in DownloadedOutput, the phase with the most fields.
C24_Witness ==
    /\ LastCmd = L_status
    /\ prev.tag = "DownloadedOutput"
    /\ ~last.ok
    /\ DOMAIN state.shares # {}
    /\ state = prev

\* What holds of every read: the bytes put are the next bytes of the body,
\* at most chunk_size of them and no more than the buffer has room for; the
\* position does not decrease, does not pass the end of the body, and counts
\* the bytes emitted, which are the body up to it.
ReaderKeepsOrder ==
    /\ Len(read.put) <= reader.chunk_size
    /\ Len(read.put) <= read.room
    /\ read.from <= reader.position
    /\ reader.position = read.from + Len(read.put)
    /\ reader.position <= Len(reader.inner)
    /\ reader.position = Len(emitted)
    /\ emitted = SubSeq(reader.inner, 1, reader.position)
    /\ reader.progress_bar.position = reader.position

====
